---- MODULE Spec2Model ----
(***************************************************************************)
(* Model of server.js: the URL normalizer, the sidebar link discoverer,    *)
(* the crawl loop of scrapeAll and the GET /scrape-all handler.            *)
(*                                                                         *)
(* Strings are sequences of tokens.  A token is a piece of text that the   *)
(* code never looks inside: "L" is "https://learn.microsoft.com", "LU" is  *)
(* the same origin spelled "https://LEARN.microsoft.com", "O" is           *)
(* "https://other.com"; "/", "?", "#", " ", "-" are the characters         *)
(* themselves; every other token is a word or path segment.  Texts are     *)
(* cut into tokens so that a keyword of isSupportedCountryLink can match   *)
(* only on token boundaries ("regions" is "region","s").                   *)
(***************************************************************************)
EXTENDS Integers, Sequences, FiniteSets, TLC

\* ------------------------------------------------------------ bounds

\* Longest seed list (lines of urls.txt) the model enumerates.
MaxSeeds == 2

\* ------------------------------------------------------------ strings

\* The value normalizeUrl returns from its catch block.
Null == <<"null">>

\* The tokens that begin an absolute URL: scheme and authority prefix.
OriginTokens == {"L", "LU", "O"}

\* String.prototype.toLowerCase on one token.
LowerTok(t) ==
  CASE t = "LU" -> "L"
    [] t = "Supported" -> "supported"
    [] t = "Countries" -> "countries"
    [] OTHER -> t

toLowerCase(s) == [i \in 1..Len(s) |-> LowerTok(s[i])]

\* String.prototype.startsWith
startsWith(s, p) == Len(s) >= Len(p) /\ SubSeq(s, 1, Len(p)) = p

\* String.prototype.endsWith
endsWith(s, p) == Len(s) >= Len(p) /\ SubSeq(s, Len(s) - Len(p) + 1, Len(s)) = p

\* String.prototype.includes
includes(s, p) ==
  \E i \in 1..(Len(s) - Len(p) + 1) : SubSeq(s, i, i + Len(p) - 1) = p

\* String.prototype.trim: leading and trailing blanks removed.
RECURSIVE trim(_)
trim(s) ==
  IF s = <<>> THEN s
  ELSE IF Head(s) = " " THEN trim(Tail(s))
  ELSE IF s[Len(s)] = " " THEN trim(SubSeq(s, 1, Len(s) - 1))
  ELSE s

\* Index of the first token of s that is in set, Len(s)+1 when there is none.
RECURSIVE IndexOfAny(_, _, _)
IndexOfAny(s, set, i) ==
  IF i > Len(s) THEN i
  ELSE IF s[i] \in set THEN i
  ELSE IndexOfAny(s, set, i + 1)

\* ------------------------------------------------------------ WHATWG URL

\* new URL(raw) throws unless raw begins with a scheme and authority.
IsAbsolute(raw) == raw # <<>> /\ raw[1] \in OriginTokens

\* new URL(raw) for an absolute raw: the parsed record.  The host is
\* lower-cased by the parser, an empty path becomes "/", the search keeps
\* its "?" and the hash its "#".
ParseUrl(raw) ==
  LET hEnd == IndexOfAny(raw, {"/", "?", "#"}, 1)
      rest == SubSeq(raw, hEnd, Len(raw))
      pEnd == IndexOfAny(rest, {"?", "#"}, 1)
      tail == SubSeq(rest, pEnd, Len(rest))
      qEnd == IndexOfAny(tail, {"#"}, 1)
  IN [ origin   |-> toLowerCase(SubSeq(raw, 1, hEnd - 1)),
       pathname |-> IF pEnd = 1 THEN <<"/">> ELSE SubSeq(rest, 1, pEnd - 1),
       search   |-> SubSeq(tail, 1, qEnd - 1),
       hash     |-> SubSeq(tail, qEnd, Len(tail)) ]

\* URL.prototype.toString
UrlToString(url) == url.origin \o url.pathname \o url.search \o url.hash

\* normalizeUrl: fragment dropped, one trailing "/" of a non-root path dropped.
normalizeUrl(raw) ==
  IF ~IsAbsolute(raw) THEN Null
  ELSE LET url == ParseUrl(raw)
           p   == url.pathname
       IN UrlToString([url EXCEPT !.hash = <<>>,
                                  !.pathname =
                         IF p # <<"/">> /\ endsWith(p, <<"/">>)
                           THEN SubSeq(p, 1, Len(p) - 1) ELSE p])

\* new URL(href, baseUrl).toString(); Null when the constructor throws.
\* baseUrl is an absolute URL.  "http://[" stands for any href that no
\* base makes parseable.
ResolveUrl(href, baseUrl) ==
  LET base == ParseUrl(baseUrl)
      dir  == SubSeq(base.pathname, 1,
                     CHOOSE k \in 1..Len(base.pathname) :
                       /\ base.pathname[k] = "/"
                       /\ \A j \in (k + 1)..Len(base.pathname) : base.pathname[j] # "/")
  IN IF href = <<>> THEN UrlToString([base EXCEPT !.hash = <<>>])
     ELSE IF href[1] = "http://[" THEN Null
     ELSE IF href[1] \in OriginTokens THEN UrlToString(ParseUrl(href))
     ELSE IF href[1] = "/" THEN UrlToString(ParseUrl(base.origin \o href))
     ELSE IF href[1] = "?" THEN UrlToString(ParseUrl(base.origin \o base.pathname \o href))
     ELSE IF href[1] = "#" THEN UrlToString([base EXCEPT !.hash = href])
     ELSE UrlToString(ParseUrl(base.origin \o dir \o href))

\* ------------------------------------------------------------ pages

\* The html of a fetched page, as far as the selectors of server.js read it:
\*   mainH1, h1, title : text of $("main h1").first(), $("h1").first(), $("title")
\*   localTime         : <<>> or <<[text, datetime]>>, the local-time[datetime] element
\*   regions           : text of each selector of extractLastUpdated, in its order
\*   body              : text of $("body")
\*   anchors           : the a[href] elements in document order; sel is the set
\*                       of sidebar selectors the anchor matches, box the index
\*                       in boxes of its nearest section/table/div ancestor (0: none)
\*   boxes             : for each such ancestor, its text outside the anchors
NoRegions == << <<>>, <<>>, <<>>, <<>>, <<>>, <<>> >>

Anchor(href, text, sel, box) == [href |-> href, text |-> text, sel |-> sel, box |-> box]

\* Page a of the end-to-end scenario; the three anchors sit in an <aside>
\* with no section, table or div around them.
PageAlphaFlat ==
  [ mainH1 |-> <<"Alpha">>, h1 |-> <<"Alpha">>, title |-> <<"Alpha"," ","|"," ","Docs">>,
    localTime |-> << [text |-> <<>>, datetime |-> "2024-01-02T12:00:00Z"] >>,
    regions |-> NoRegions, body |-> <<"Alpha">>,
    anchors |-> << Anchor(<<"/","b">>, <<"Beta">>, {"aside"}, 0),
                   Anchor(<<"O","/","c">>, <<"Gamma">>, {"aside"}, 0),
                   Anchor(<<"/","d">>, <<"Supported"," ","countries">>, {"aside"}, 0) >>,
    boxes |-> <<>> ]

\* The same page with the three anchors inside one <div> of the <aside>.
PageAlphaDiv ==
  [ PageAlphaFlat EXCEPT
      !.anchors = << Anchor(<<"/","b">>, <<"Beta">>, {"aside"}, 1),
                     Anchor(<<"O","/","c">>, <<"Gamma">>, {"aside"}, 1),
                     Anchor(<<"/","d">>, <<"Supported"," ","countries">>, {"aside"}, 1) >>,
      !.boxes = << <<>> >> ]

\* The same page with the /b and other.com anchors in one <div> and the
\* "Supported countries" anchor in another.
PageAlphaBoxes ==
  [ PageAlphaFlat EXCEPT
      !.anchors = << Anchor(<<"/","b">>, <<"Beta">>, {"aside"}, 1),
                     Anchor(<<"O","/","c">>, <<"Gamma">>, {"aside"}, 1),
                     Anchor(<<"/","d">>, <<"Supported"," ","countries">>, {"aside"}, 2) >>,
      !.boxes = << <<"Related">>, <<>> >> ]

\* A page without links; its date is in the footer paragraph.
PageBeta ==
  [ mainH1 |-> <<>>, h1 |-> <<" ","Beta"," ">>, title |-> <<"Beta">>,
    localTime |-> <<>>,
    regions |-> << <<"Last updated",":"," ","May 5, 2020">>,
                   <<"Last updated",":"," ","May 5, 2020">>, <<>>, <<>>, <<>>, <<>> >>,
    body |-> <<"Beta"," ","Last updated",":"," ","May 5, 2020">>,
    anchors |-> <<>>, boxes |-> <<>> ]

\* A hub page: links in the table of contents and in the aside, spelled in
\* several ways, and links that the discoverer skips.
PageHub ==
  [ mainH1 |-> <<>>, h1 |-> <<>>, title |-> <<"Hub">>,
    localTime |-> << [text |-> <<"today">>, datetime |-> "2024-03-15T00:00:00Z"] >>,
    regions |-> NoRegions, body |-> <<"Hub">>,
    anchors |-> << Anchor(<<"L","/","a","/","#","f">>, <<"Alpha">>, {"toc","nav"}, 0),
                   Anchor(<<"/","b","/","/">>, <<"Beta">>, {"toc"}, 0),
                   Anchor(<<"LU","/","b">>, <<"Beta">>, {"aside"}, 1),
                   Anchor(<<"#","top">>, <<"Top">>, {"aside"}, 1),
                   Anchor(<<"http://[">>, <<"Broken">>, {"aside"}, 1),
                   Anchor(<<>>, <<"Empty">>, {"aside"}, 1),
                   Anchor(<<"/","e">>, <<"Elsewhere">>, {}, 0),
                   Anchor(<<"/","country","-","region","/","fr">>, <<"France">>, {"nav"}, 0) >>,
    boxes |-> << <<"See"," ","also">> >> ]

\* The pages a fetch may return.
Pages == {PageAlphaFlat, PageAlphaDiv, PageAlphaBoxes, PageBeta, PageHub}

\* ------------------------------------------------------------ metadata

\* a || b on strings: the empty string is falsy.
OrElse(a, b) == IF a # <<>> THEN a ELSE b

\* extractTitle
extractTitle(page) ==
  OrElse(trim(page.mainH1), OrElse(trim(page.h1), trim(page.title)))

\* Texts that match /^\d{2}\/\d{2}\/\d{4}$/ as a whole.
NumericDates == {"03/15/2024", "01/02/2024"}

\* Texts that match [A-Za-z]+\s+\d{1,2},\s+\d{4} as a whole.
DatePhrases == {"January 2, 2024", "May 5, 2020"}

\* The time zones of the process that the model distinguishes.
TimeZones == {"UTC", "America/New_York"}

\* new Date(iso).toLocaleDateString("en-US") in time zone zone; <<>> when
\* new Date(iso) is an invalid date.
toLocaleDateString(iso, zone) ==
  CASE iso = "2024-01-02T12:00:00Z" -> <<"1/2/2024">>
    [] iso = "2024-03-15T00:00:00Z" ->
         IF zone = "America/New_York" THEN <<"3/14/2024">> ELSE <<"3/15/2024">>
    [] OTHER -> <<>>

\* text.match(/Last\s*updated[:\s]*([A-Za-z]+\s+\d{1,2},\s+\d{4})/i): group 1
\* of the leftmost match, <<>> when there is none.  i is the position tried.
RECURSIVE SkipColonsAndBlanks(_, _)
SkipColonsAndBlanks(s, i) ==
  IF i <= Len(s) /\ s[i] \in {":", " "} THEN SkipColonsAndBlanks(s, i + 1) ELSE i

RECURSIVE MatchLastUpdated(_, _)
MatchLastUpdated(s, i) ==
  IF i > Len(s) THEN <<>>
  ELSE LET j == SkipColonsAndBlanks(s, i + 1)
       IN IF s[i] \in {"Last updated", "last updated"} /\ j <= Len(s) /\ s[j] \in DatePhrases
            THEN <<s[j]>>
            ELSE MatchLastUpdated(s, i + 1)

\* bodyText.match(/\b([A-Za-z]+\s+\d{1,2},\s+\d{4})\b/): the first date phrase.
RECURSIVE MatchLooseDate(_, _)
MatchLooseDate(s, i) ==
  IF i > Len(s) THEN <<>>
  ELSE IF s[i] \in DatePhrases THEN <<s[i]>>
  ELSE MatchLooseDate(s, i + 1)

\* The selectors loop of extractLastUpdated from selector k on.
RECURSIVE FirstRegionMatch(_, _)
FirstRegionMatch(regions, k) ==
  IF k > Len(regions) THEN <<>>
  ELSE OrElse(MatchLastUpdated(regions[k], 1), FirstRegionMatch(regions, k + 1))

\* extractLastUpdated with the datetime attribute tried before the text.
extractLastUpdated_AttrFirst(page, zone) ==
  LET lt       == page.localTime
      textDate == IF lt = <<>> THEN <<>> ELSE trim(lt[1].text)
      fromAttr == IF lt = <<>> THEN <<>> ELSE toLocaleDateString(lt[1].datetime, zone)
      inRegion == FirstRegionMatch(page.regions, 1)
      loose    == MatchLooseDate(page.body, 1)
  IN IF fromAttr # <<>> THEN fromAttr
     ELSE IF lt # <<>> /\ Len(textDate) = 1 /\ textDate[1] \in NumericDates THEN textDate
     ELSE IF inRegion # <<>> THEN inRegion
     ELSE IF loose # <<>> THEN loose
     ELSE <<"UNKNOWN">>

\* extractLastUpdated in a process whose time zone is zone.
extractLastUpdated(page, zone) ==
  LET lt       == page.localTime
      textDate == IF lt = <<>> THEN <<>> ELSE trim(lt[1].text)
      fromAttr == IF lt = <<>> THEN <<>> ELSE toLocaleDateString(lt[1].datetime, zone)
      inRegion == FirstRegionMatch(page.regions, 1)
      loose    == MatchLooseDate(page.body, 1)
  IN IF lt # <<>> /\ Len(textDate) = 1 /\ textDate[1] \in NumericDates THEN textDate
     ELSE IF fromAttr # <<>> THEN fromAttr
     ELSE IF inRegion # <<>> THEN inRegion
     ELSE IF loose # <<>> THEN loose
     ELSE <<"UNKNOWN">>

\* ------------------------------------------------------------ links

\* $anchor.closest("section, table, div").text(): the text of the nearest
\* enclosing box, the anchors inside it included; empty without a box.
RECURSIVE BoxAnchorText(_, _, _)
BoxAnchorText(anchors, box, i) ==
  IF i > Len(anchors) THEN <<>>
  ELSE (IF anchors[i].box = box THEN anchors[i].text ELSE <<>>)
         \o BoxAnchorText(anchors, box, i + 1)

closestText(page, a) ==
  IF a.box = 0 THEN <<>>
  ELSE page.boxes[a.box] \o BoxAnchorText(page.anchors, a.box, 1)

\* isSupportedCountryLink without the tests on the anchor's own text.
isSupportedCountryLink_NoTextTest(page, a) ==
  LET href       == toLowerCase(a.href)
      parentText == toLowerCase(closestText(page, a))
  IN \/ includes(href, <<"country", "-", "region">>)
     \/ (includes(href, <<"availability">>) /\ includes(href, <<"country">>))
     \/ includes(parentText, <<"supported", " ", "countries">>)
     \/ includes(parentText, <<"supported", " ", "region", "s">>)
     \/ includes(parentText, <<"country", "/", "region">>)

\* isSupportedCountryLink
isSupportedCountryLink(page, a) ==
  LET text       == toLowerCase(trim(a.text))
      href       == toLowerCase(a.href)
      parentText == toLowerCase(closestText(page, a))
  IN \/ includes(text, <<"supported", " ", "countries">>)
     \/ includes(text, <<"supported", " ", "region", "s">>)
     \/ includes(text, <<"supported", " ", "country">>)
     \/ includes(text, <<"countries", "/", "region", "s">>)
     \/ includes(text, <<"country", "/", "region">>)
     \/ includes(href, <<"country", "-", "region">>)
     \/ (includes(href, <<"availability">>) /\ includes(href, <<"country">>))
     \/ includes(parentText, <<"supported", " ", "countries">>)
     \/ includes(parentText, <<"supported", " ", "region", "s">>)
     \/ includes(parentText, <<"country", "/", "region">>)

\* The selectors of extractSidebarUrls, in the order of its selectors array.
SidebarSelectors == <<"toc", "nav", "aside">>

\* SidebarLink without the startsWith test of line 131.
SidebarLink_NoDomainTest(page, a, baseUrl) ==
  LET abs == ResolveUrl(a.href, baseUrl)
  IN IF a.href = <<>> \/ startsWith(a.href, <<"#">>) THEN <<>>
     ELSE IF abs = Null THEN <<>>
     ELSE IF isSupportedCountryLink(page, a) THEN <<>>
     ELSE <<normalizeUrl(abs)>>

\* The body of the .each callback for one anchor: the link it adds to the
\* set, as a sequence of at most one element.
SidebarLink(page, a, baseUrl) ==
  LET abs == ResolveUrl(a.href, baseUrl)
  IN IF a.href = <<>> \/ startsWith(a.href, <<"#">>) THEN <<>>
     ELSE IF abs = Null THEN <<>>
     ELSE IF ~startsWith(abs, <<"L", "/">>) THEN <<>>
     ELSE IF isSupportedCountryLink(page, a) THEN <<>>
     ELSE <<normalizeUrl(abs)>>

\* All links added for selector k, anchors from i on, in document order.
RECURSIVE SelectorLinks(_, _, _, _)
SelectorLinks(page, k, i, baseUrl) ==
  IF i > Len(page.anchors) THEN <<>>
  ELSE (IF SidebarSelectors[k] \in page.anchors[i].sel
          THEN SidebarLink(page, page.anchors[i], baseUrl) ELSE <<>>)
         \o SelectorLinks(page, k, i + 1, baseUrl)

\* Array.from(new Set(s)): first occurrences, in insertion order.
RECURSIVE ArrayFromSet(_, _)
ArrayFromSet(s, seen) ==
  IF s = <<>> THEN <<>>
  ELSE IF Head(s) \in seen THEN ArrayFromSet(Tail(s), seen)
  ELSE <<Head(s)>> \o ArrayFromSet(Tail(s), seen \cup {Head(s)})

\* extractSidebarUrls
extractSidebarUrls(page, baseUrl) ==
  ArrayFromSet(SelectorLinks(page, 1, 1, baseUrl)
                 \o SelectorLinks(page, 2, 1, baseUrl)
                 \o SelectorLinks(page, 3, 1, baseUrl), {})

\* ------------------------------------------------------------ csv

\* esc of toCsv: the value in double quotes, embedded quotes doubled.
RECURSIVE DoubleQuotes(_)
DoubleQuotes(val) ==
  IF val = <<>> THEN <<>>
  ELSE (IF Head(val) = "\"" THEN <<"\"", "\"">> ELSE <<Head(val)>>)
         \o DoubleQuotes(Tail(val))

\* esc without the doubling of embedded quotes.
esc_NoDoubling(val) == <<"\"">> \o val \o <<"\"">>

esc(val) == <<"\"">> \o DoubleQuotes(val) \o <<"\"">>

\* The lines that toCsv joins, rows from i on.
RECURSIVE CsvLines(_, _)
CsvLines(rows, i) ==
  IF i > Len(rows) THEN <<>>
  ELSE << esc(rows[i].Title) \o <<",">> \o esc(rows[i].URL) \o <<",">>
            \o esc(rows[i].LastUpdated) >>
         \o CsvLines(rows, i + 1)

\* Array.prototype.join("\r\n")
RECURSIVE JoinCrLf(_)
JoinCrLf(lines) ==
  IF lines = <<>> THEN <<>>
  ELSE IF Len(lines) = 1 THEN lines[1]
  ELSE lines[1] \o <<"\r\n">> \o JoinCrLf(Tail(lines))

\* toCsv
toCsv(rows) ==
  JoinCrLf(<< <<"Title", ",", "URL", ",", "LastUpdated">> >> \o CsvLines(rows, 1))

\* ------------------------------------------------------------ seed file

\* The lines urls.txt may hold: a plain URL; the same page with blanks
\* around it, an upper-case host, a trailing slash and a fragment; the same
\* page with two trailing slashes; another site's root without its path; a
\* line that is no URL; a blank line.
RawLines ==
  { <<"L", "/", "a">>,
    <<" ", "LU", "/", "a", "/", "#", "f", " ">>,
    <<"L", "/", "a", "/", "/">>,
    <<"O">>,
    <<"not a url">>,
    <<" ">> }

\* The contents of urls.txt, split into lines, that the model enumerates.
SeedFiles == UNION { [1..n -> RawLines] : n \in 0..MaxSeeds }

\* Array.prototype.filter(Boolean) on strings: empty strings dropped.
RECURSIVE FilterNonEmpty(_)
FilterNonEmpty(xs) ==
  IF xs = <<>> THEN <<>>
  ELSE (IF Head(xs) = <<>> THEN <<>> ELSE <<Head(xs)>>) \o FilterNonEmpty(Tail(xs))

\* Array.prototype.filter(Boolean) on the results of normalizeUrl: null
\* (and the empty string) dropped.
RECURSIVE FilterNonNull(_)
FilterNonNull(xs) ==
  IF xs = <<>> THEN <<>>
  ELSE (IF Head(xs) = Null \/ Head(xs) = <<>> THEN <<>> ELSE <<Head(xs)>>)
         \o FilterNonNull(Tail(xs))

\* rawList of scrapeAll: the lines trimmed, blank ones dropped.
RawList(lines) == FilterNonEmpty([i \in 1..Len(lines) |-> trim(lines[i])])

\* seedUrls of scrapeAll
SeedUrls(lines) ==
  LET rawList == RawList(lines)
  IN FilterNonNull([i \in 1..Len(rawList) |-> normalizeUrl(rawList[i])])

Range(xs) == {xs[i] : i \in 1..Len(xs)}

\* ------------------------------------------------------------ state

VARIABLES
  urlsExists,        \* fs.existsSync(urlsPath)
  urlsLines,         \* the lines of urls.txt
  zone,              \* the time zone of the process
  pc,                \* "idle", "loop", "fetching", "done", "failed"
  seedSet, visited, queued, queue,
  seedResults, discoveredResults,
  pageCount,
  current,           \* the URL being fetched
  allRows,           \* what scrapeAll returned
  response,          \* what the /scrape-all handler sent
  fetchLog,          \* every fetch issued, in order, with its outcome
  runs,              \* overlapping requests: the locals of each scrapeAll call
  probe,             \* a function called on its own: its name and arguments
  answer             \* <<>>, or <<v>> once the probed call returned v

\* What the single-request crawl leaves alone.
apart == << runs, probe, answer >>

vars == << urlsExists, urlsLines, zone, pc, seedSet, visited, queued, queue,
           seedResults, discoveredResults, pageCount, current, allRows,
           response, fetchLog, runs, probe, answer >>

NoResponse == [status |-> 0, body |-> <<>>]

Init ==
  /\ urlsExists \in BOOLEAN
  /\ urlsLines \in (IF urlsExists THEN SeedFiles ELSE {<<>>})
  /\ zone \in TimeZones
  /\ pc = "idle"
  /\ seedSet = {} /\ visited = {} /\ queued = {} /\ queue = <<>>
  /\ seedResults = <<>> /\ discoveredResults = <<>>
  /\ pageCount = 0
  /\ current = <<>>
  /\ allRows = <<>>
  /\ response = NoResponse
  /\ fetchLog = <<>>
  /\ runs = <<>>
  /\ probe = <<>>
  /\ answer = <<>>

\* ScrapeAllMissing without the existsSync test: a missing file read as an
\* empty one.
ScrapeAllMissing_ReadAsEmpty ==
  /\ pc = "idle"
  /\ ~urlsExists
  /\ seedSet' = {} /\ queued' = {} /\ queue' = <<>> /\ visited' = {}
  /\ seedResults' = <<>>
  /\ discoveredResults' = <<>>
  /\ pageCount' = 0
  /\ pc' = "loop"
  /\ UNCHANGED << apart, urlsExists, urlsLines, zone, current, allRows, response, fetchLog >>

\* GET /scrape-all when urls.txt is missing: scrapeAll throws and the
\* handler answers 500.
ScrapeAllMissing ==
  /\ pc = "idle"
  /\ ~urlsExists
  /\ pc' = "failed"
  /\ response' = [status |-> 500,
                  body |-> <<"Scraping failed: ",
                             "urls.txt not found. Place it next to server.js.">>]
  /\ UNCHANGED << apart, urlsExists, urlsLines, zone, seedSet, visited, queued, queue,
                  seedResults, discoveredResults, pageCount, current, allRows,
                  fetchLog >>

\* ScrapeAllStart with seedSet built from rawList instead of seedUrls.
ScrapeAllStart_RawSeedSet ==
  /\ pc = "idle"
  /\ urlsExists
  /\ LET seedUrls == SeedUrls(urlsLines)
     IN /\ seedSet' = Range(RawList(urlsLines))
        /\ queued' = Range(seedUrls)
        /\ queue' = seedUrls
  /\ visited' = {}
  /\ seedResults' = <<>>
  /\ discoveredResults' = <<>>
  /\ pageCount' = 0
  /\ pc' = "loop"
  /\ UNCHANGED << apart, urlsExists, urlsLines, zone, current, allRows, response, fetchLog >>

\* GET /scrape-all, scrapeAll up to its loop.
ScrapeAllStart ==
  /\ pc = "idle"
  /\ urlsExists
  /\ LET seedUrls == SeedUrls(urlsLines)
     IN /\ seedSet' = Range(seedUrls)
        /\ queued' = Range(seedUrls)
        /\ queue' = seedUrls
  /\ visited' = {}
  /\ seedResults' = <<>>
  /\ discoveredResults' = <<>>
  /\ pageCount' = 0
  /\ pc' = "loop"
  /\ UNCHANGED << apart, urlsExists, urlsLines, zone, current, allRows, response, fetchLog >>

\* One turn of the loop that ends at "continue" on an entry already visited.
LoopSkip ==
  /\ pc = "loop"
  /\ queue # <<>>
  /\ Head(queue) = <<>> \/ Head(queue) \in visited
  /\ queue' = Tail(queue)
  /\ current' = Head(queue)
  /\ UNCHANGED << apart, urlsExists, urlsLines, zone, pc, seedSet, visited, queued,
                  seedResults, discoveredResults, pageCount, allRows, response,
                  fetchLog >>

\* LoopFetch without the visited.has(current) test of line 170.
LoopFetch_NoVisitedTest ==
  /\ pc = "loop"
  /\ queue # <<>>
  /\ Head(queue) # <<>>
  /\ queue' = Tail(queue)
  /\ current' = Head(queue)
  /\ visited' = visited \cup {Head(queue)}
  /\ pageCount' = pageCount + 1
  /\ pc' = "fetching"
  /\ UNCHANGED << apart, urlsExists, urlsLines, zone, seedSet, queued, seedResults,
                  discoveredResults, allRows, response, fetchLog >>

\* One turn of the loop up to the await of fetch.
LoopFetch ==
  /\ pc = "loop"
  /\ queue # <<>>
  /\ ~(Head(queue) = <<>> \/ Head(queue) \in visited)
  /\ queue' = Tail(queue)
  /\ current' = Head(queue)
  /\ visited' = visited \cup {Head(queue)}
  /\ pageCount' = pageCount + 1
  /\ pc' = "fetching"
  /\ UNCHANGED << apart, urlsExists, urlsLines, zone, seedSet, queued, seedResults,
                  discoveredResults, allRows, response, fetchLog >>

\* FetchFailed without the try/catch: the error leaves scrapeAll and the
\* handler answers 500.
FetchFailed_Fatal ==
  /\ pc' = "failed"
  /\ response' = [status |-> 500, body |-> <<"Scraping failed: ", "fetch failed">>]
  /\ fetchLog' = Append(fetchLog, [url |-> current, ok |-> FALSE, html |-> <<>>])
  /\ UNCHANGED << apart, urlsExists, urlsLines, zone, seedSet, visited, queued, queue,
                  seedResults, discoveredResults, pageCount, current, allRows >>

\* FetchFailed with a retry: the URL goes back to the head of the queue,
\* is no longer visited and the attempt is not counted.
FetchFailed_Retry ==
  /\ pc' = "loop"
  /\ queue' = <<current>> \o queue
  /\ visited' = visited \ {current}
  /\ pageCount' = pageCount - 1
  /\ UNCHANGED << apart, urlsExists, urlsLines, zone, seedSet, queued, seedResults,
                  discoveredResults, current, allRows, response, fetchLog >>

\* What a failed fetch leaves: "continue".
FetchFailed ==
  /\ pc' = "loop"
  /\ fetchLog' = Append(fetchLog, [url |-> current, ok |-> FALSE, html |-> <<>>])
  /\ UNCHANGED << apart, urlsExists, urlsLines, zone, seedSet, visited, queued, queue,
                  seedResults, discoveredResults, pageCount, current, allRows,
                  response >>

\* The fetch resolves with a status that is not ok.
FetchNotOk ==
  /\ pc = "fetching"
  /\ FetchFailed

\* The fetch, or res.text(), rejects.
FetchThrows ==
  /\ pc = "fetching"
  /\ FetchFailed

\* EnqueueNew with new links put at the head of the queue.
RECURSIVE EnqueueNew_Unshift(_, _, _, _)
EnqueueNew_Unshift(extraUrls, i, seen, frontier) ==
  IF i > Len(extraUrls) THEN frontier
  ELSE LET norm == normalizeUrl(extraUrls[i])
       IN IF norm = Null \/ norm \in seen \/ norm \in frontier.queued
            THEN EnqueueNew_Unshift(extraUrls, i + 1, seen, frontier)
            ELSE EnqueueNew_Unshift(extraUrls, i + 1, seen,
                                    [queued |-> frontier.queued \cup {norm},
                                     queue  |-> <<norm>> \o frontier.queue])

\* EnqueueNew without queued.add: a new link is pushed but not remembered.
RECURSIVE EnqueueNew_NoQueuedAdd(_, _, _, _)
EnqueueNew_NoQueuedAdd(extraUrls, i, seen, frontier) ==
  IF i > Len(extraUrls) THEN frontier
  ELSE LET norm == normalizeUrl(extraUrls[i])
       IN IF norm = Null \/ norm \in seen \/ norm \in frontier.queued
            THEN EnqueueNew_NoQueuedAdd(extraUrls, i + 1, seen, frontier)
            ELSE EnqueueNew_NoQueuedAdd(extraUrls, i + 1, seen,
                                        [queued |-> frontier.queued,
                                         queue  |-> Append(frontier.queue, norm)])

\* The for loop over extraUrls: the frontier [queued, queue] after the
\* links from i on were offered.
RECURSIVE EnqueueNew(_, _, _, _)
EnqueueNew(extraUrls, i, seen, frontier) ==
  IF i > Len(extraUrls) THEN frontier
  ELSE LET norm == normalizeUrl(extraUrls[i])
       IN IF norm = Null \/ norm \in seen \/ norm \in frontier.queued
            THEN EnqueueNew(extraUrls, i + 1, seen, frontier)
            ELSE EnqueueNew(extraUrls, i + 1, seen,
                            [queued |-> frontier.queued \cup {norm},
                             queue  |-> Append(frontier.queue, norm)])

\* The record of a fetched page.
Record(page, url, tz) ==
  [Title |-> extractTitle(page), URL |-> url, LastUpdated |-> extractLastUpdated(page, tz)]

\* The fetch resolves with html: the rest of the loop body.
FetchOk(page) ==
  /\ pc = "fetching"
  /\ LET record   == Record(page, current, zone)
         frontier == EnqueueNew(extractSidebarUrls(page, current), 1, visited,
                                [queued |-> queued, queue |-> queue])
     IN /\ IF current \in seedSet
             THEN /\ seedResults' = Append(seedResults, record)
                  /\ UNCHANGED discoveredResults
             ELSE /\ discoveredResults' = Append(discoveredResults, record)
                  /\ UNCHANGED seedResults
        /\ queued' = frontier.queued
        /\ queue' = frontier.queue
  /\ fetchLog' = Append(fetchLog, [url |-> current, ok |-> TRUE, html |-> <<page>>])
  /\ pc' = "loop"
  /\ UNCHANGED << apart, urlsExists, urlsLines, zone, seedSet, visited, pageCount,
                  current, allRows, response >>

\* AllRows with the two groups in the other order.
AllRows_DiscoveredFirst(seeds, discovered) == discovered \o seeds

\* allRows of scrapeAll
AllRows(seeds, discovered) == seeds \o discovered

\* The queue is empty: scrapeAll returns and the handler sends the CSV.
ScrapeAllReturn ==
  /\ pc = "loop"
  /\ queue = <<>>
  /\ allRows' = AllRows(seedResults, discoveredResults)
  /\ response' = [status |-> 200, body |-> toCsv(allRows')]
  /\ pc' = "done"
  /\ UNCHANGED << apart, urlsExists, urlsLines, zone, seedSet, visited, queued, queue,
                  seedResults, discoveredResults, pageCount, current, fetchLog >>

Next ==
  \/ ScrapeAllMissing
  \/ ScrapeAllStart
  \/ LoopSkip
  \/ LoopFetch
  \/ FetchNotOk
  \/ FetchThrows
  \/ \E page \in Pages : FetchOk(page)
  \/ ScrapeAllReturn

Spec == Init /\ [][Next]_vars

\* The steps of Next seen through pc and queue alone.  From "idle" every
\* step is Begins, from "loop" every step is Turns, from "fetching" every
\* step is Completes, and each is enabled exactly where the actions of
\* Next it stands for are.
Begins == pc = "idle" /\ pc' \in {"loop", "failed"}

Turns ==
  /\ pc = "loop"
  /\ \/ queue # <<>> /\ queue' = Tail(queue) /\ pc' \in {"loop", "fetching"}
     \/ queue = <<>> /\ queue' = queue /\ pc' = "done"

Completes == pc = "fetching" /\ pc' = "loop"

\* The code runs on: a request is served, the synchronous part of a loop
\* turn is executed, and every awaited fetch eventually resolves or rejects.
FairSpec ==
  /\ Spec
  /\ WF_pc(Begins)
  /\ WF_<<pc, queue>>(Turns)
  /\ WF_pc(Completes)

\* ------------------------------------------------------------ functions on their own

\* The variables of the single-request crawl.
crawlVars == << urlsExists, urlsLines, pc, seedSet, visited, queued, queue,
                seedResults, discoveredResults, pageCount, current, allRows,
                response, fetchLog >>

\* No request was made and none will be.
NoCrawl ==
  /\ urlsExists = FALSE /\ urlsLines = <<>>
  /\ pc = "off"
  /\ seedSet = {} /\ visited = {} /\ queued = {} /\ queue = <<>>
  /\ seedResults = <<>> /\ discoveredResults = <<>>
  /\ pageCount = 0
  /\ current = <<>>
  /\ allRows = <<>>
  /\ response = NoResponse
  /\ fetchLog = <<>>

\* The local-time[datetime] element of a page: none; one whose text is a
\* numeric date; one whose text is a numeric date between blanks and whose
\* attribute does not parse; one with other text and a midnight-UTC
\* attribute; one without text and a noon-UTC attribute; one with other
\* text and an attribute that does not parse; one with an empty attribute.
LocalTimes ==
  { <<>>,
    << [text |-> <<"03/15/2024">>, datetime |-> "2024-01-02T12:00:00Z"] >>,
    << [text |-> <<" ", "01/02/2024", " ">>, datetime |-> "garbage"] >>,
    << [text |-> <<"today">>, datetime |-> "2024-03-15T00:00:00Z"] >>,
    << [text |-> <<>>, datetime |-> "2024-01-02T12:00:00Z"] >>,
    << [text |-> <<"today">>, datetime |-> "garbage"] >>,
    << [text |-> <<"03/15/2024", " ", "UTC">>, datetime |-> ""] >> }

\* The texts of the six selectors of extractLastUpdated: nothing; the date
\* in the footer paragraph; a lower-case phrase without colon in the footer
\* and another date in main; a date without the phrase in the article and
\* the phrase in the header; the phrase in main with no date right after it.
RegionTexts ==
  { NoRegions,
    << <<"Last updated", ":", " ", "May 5, 2020">>,
       <<"Last updated", ":", " ", "May 5, 2020">>, <<>>, <<>>, <<>>, <<>> >>,
    << <<>>, <<"last updated", " ", "January 2, 2024">>, <<>>,
       <<"Last updated", ":", "May 5, 2020">>, <<>>, <<>> >>,
    << <<>>, <<>>, <<>>, <<>>, <<"Published", " ", "January 2, 2024">>,
       <<"Last updated", ":", " ", "May 5, 2020">> >>,
    << <<>>, <<>>, <<>>,
       <<"Last updated", " ", "soon", ".", " ", "January 2, 2024">>, <<>>, <<>> >> }

\* Text of the body outside the six selectors.
BodyTexts == { <<"Hub", " ">>, <<"Built", " ", "May 5, 2020", " ">> }

\* A page with the given date signals; the body holds the text of the
\* header, main, article and footer elements.
DatePage(lt, regions, text) ==
  [ mainH1 |-> <<>>, h1 |-> <<>>, title |-> <<"Hub">>,
    localTime |-> lt, regions |-> regions,
    body |-> text \o regions[6] \o regions[4] \o regions[5] \o regions[2],
    anchors |-> <<>>, boxes |-> <<>> ]

DateProbes ==
  { [fn |-> "extractLastUpdated", page |-> DatePage(lt, regions, text)] :
      lt \in LocalTimes, regions \in RegionTexts, text \in BodyTexts }

\* The text of the anchor that links to the list of supported countries.
SupportedText == <<"Supported", " ", "countries", "/", "region", "s">>

\* The ways a page spells the target of an anchor: a fragment, a path
\* relative to the page, a path from the root, a query, an absolute URL of
\* the site in either case of the host, and an absolute URL of another site.
Hrefs ==
  { <<"#", "c">>, <<"c">>, <<"/", "c", "/">>, <<"?", "c">>,
    <<"L", "/", "c">>, <<"LU", "/", "c", "#", "f">>, <<"O", "/", "c">> }

\* A page with an ordinary link in the table of contents followed by a
\* link with the text "Supported countries/regions", matched by selector
\* sel; the two anchors have no enclosure (boxes 0 and 0), share one
\* (1 and 1) or have one each (1 and 2).
LinkPage(href, sel, box1, box2) ==
  [ mainH1 |-> <<>>, h1 |-> <<>>, title |-> <<"Hub">>,
    localTime |-> <<>>, regions |-> NoRegions, body |-> <<"Hub">>,
    anchors |-> << Anchor(<<"/", "b">>, <<"Beta">>, {"toc"}, box1),
                   Anchor(href, SupportedText, sel, box2) >>,
    boxes |-> IF box2 = 0 THEN <<>>
              ELSE IF box2 = 1 THEN << <<>> >>
              ELSE << <<"Related">>, <<>> >> ]

LinkProbes ==
  { [fn |-> "extractSidebarUrls",
     page |-> LinkPage(href, sel, boxes[1], boxes[2]),
     baseUrl |-> baseUrl] :
      href \in Hrefs,
      sel \in { {"toc"}, {"nav"}, {"aside"}, {"toc", "aside"} },
      boxes \in { <<0, 0>>, <<1, 1>>, <<1, 2>> },
      baseUrl \in { <<"L", "/", "a">>, <<"L", "/", "a", "/", "x", "?", "q">> } }

\* The longest Title of a row handed to toCsv on its own.
MaxFieldLen == 2

\* The characters of such a Title: a letter, a comma, a double quote and
\* a line break.
FieldChars == {"x", ",", "\"", "\r\n"}

\* The strings of at most n of these characters.
RECURSIVE FieldsUpTo(_)
FieldsUpTo(n) ==
  IF n = 0 THEN { <<>> }
  ELSE LET shorter == FieldsUpTo(n - 1)
       IN shorter \cup { <<c>> \o f : c \in FieldChars, f \in { g \in shorter : Len(g) = n - 1 } }

\* Rows as scrapeAll builds them (lines 197-201), the date spelled out
\* character by character.
CsvRows ==
  { [Title |-> t, URL |-> r[1], LastUpdated |-> r[2]] :
      t \in FieldsUpTo(MaxFieldLen),
      r \in { << <<"L", "/", "a">>, <<"UNKNOWN">> >>,
              << <<"L", "/", "b", "?", "q", "=", "1", ",", "2">>,
                 <<"May", " ", "5", ",", " ", "2020">> >> } }

CsvProbes ==
  { [fn |-> "toCsv", rows |-> rows] :
      rows \in { <<>> } \cup { <<r>> : r \in CsvRows }
                \cup { <<r1, r2>> : r1 \in CsvRows, r2 \in CsvRows } }

\* The calls the model makes on their own.
Probes == DateProbes \cup LinkProbes \cup CsvProbes

InitPure ==
  /\ NoCrawl
  /\ zone \in TimeZones
  /\ runs = <<>>
  /\ probe \in Probes
  /\ answer = <<>>

\* extractLastUpdated($, url) is called and returns.
CallExtractLastUpdated ==
  /\ probe.fn = "extractLastUpdated"
  /\ answer = <<>>
  /\ answer' = << extractLastUpdated(probe.page, zone) >>
  /\ UNCHANGED << crawlVars, zone, runs, probe >>

\* extractSidebarUrls($, baseUrl) is called and returns.
CallExtractSidebarUrls ==
  /\ probe.fn = "extractSidebarUrls"
  /\ answer = <<>>
  /\ answer' = << extractSidebarUrls(probe.page, probe.baseUrl) >>
  /\ UNCHANGED << crawlVars, zone, runs, probe >>

\* toCsv(rows) is called and returns.
CallToCsv ==
  /\ probe.fn = "toCsv"
  /\ answer = <<>>
  /\ answer' = << toCsv(probe.rows) >>
  /\ UNCHANGED << crawlVars, zone, runs, probe >>

NextPure ==
  \/ CallExtractLastUpdated
  \/ CallExtractSidebarUrls
  \/ CallToCsv

PureSpec == InitPure /\ [][NextPure]_vars

\* ------------------------------------------------------------ overlapping requests

\* The requests for /scrape-all that the server handles; each may arrive
\* at any time, before, while or after the other is served.
Requests == {"first", "second"}

\* An index page that links to /a with two trailing slashes and to /b.
PageIndex ==
  [ mainH1 |-> <<"Index">>, h1 |-> <<"Index">>, title |-> <<"Index">>,
    localTime |-> <<>>, regions |-> NoRegions, body |-> <<"Index">>,
    anchors |-> << Anchor(<<"L", "/", "a", "/", "/">>, <<"Alpha">>, {"toc"}, 0),
                   Anchor(<<"/", "b">>, <<"Beta">>, {"nav"}, 0) >>,
    boxes |-> <<>> ]

\* The pages a fetch may return while two requests are served.
ServedPages == {PageIndex, PageBeta}

\* The contents of urls.txt while two requests are served.
ServedSeedFiles ==
  { << <<"L", "/", "b">>, <<"L", "/", "a", "/", "/">> >>,
    << <<"L", "/", "a">>, <<"LU", "/", "a", "/">> >> }

\* The locals of a call of scrapeAll that has not begun.
NotStarted ==
  [ pc |-> "idle",
    seedSet |-> {}, visited |-> {}, queued |-> {}, queue |-> <<>>,
    seedResults |-> <<>>, discoveredResults |-> <<>>,
    pageCount |-> 0, current |-> <<>>, allRows |-> <<>>,
    response |-> NoResponse, fetchLog |-> <<>> ]

InitServer ==
  /\ urlsExists \in BOOLEAN
  /\ urlsLines \in (IF urlsExists THEN ServedSeedFiles ELSE {<<>>})
  /\ zone \in TimeZones
  /\ pc = "off"
  /\ seedSet = {} /\ visited = {} /\ queued = {} /\ queue = <<>>
  /\ seedResults = <<>> /\ discoveredResults = <<>>
  /\ pageCount = 0
  /\ current = <<>>
  /\ allRows = <<>>
  /\ response = NoResponse
  /\ fetchLog = <<>>
  /\ runs = [r \in Requests |-> NotStarted]
  /\ probe = <<>>
  /\ answer = <<>>

\* The handler of request r moves on: its locals become next, and nothing
\* else changes.
Serve(r, next) ==
  /\ runs' = [runs EXCEPT ![r] = next]
  /\ UNCHANGED << crawlVars, zone, probe, answer >>

\* Seen with one visited set for the whole process.
Seen_Shared(r) == UNION { runs[q].visited : q \in Requests }

\* The visited set that the loop of request r tests: its own.
Seen(r) == runs[r].visited

\* Request r arrives and urls.txt is missing.
RequestMissing(r) ==
  /\ runs[r].pc = "idle"
  /\ ~urlsExists
  /\ Serve(r, [runs[r] EXCEPT
                 !.pc = "failed",
                 !.response = [status |-> 500,
                               body |-> <<"Scraping failed: ",
                                          "urls.txt not found. Place it next to server.js.">>]])

\* Request r arrives: scrapeAll up to its loop.
RequestStart(r) ==
  /\ runs[r].pc = "idle"
  /\ urlsExists
  /\ LET seedUrls == SeedUrls(urlsLines)
     IN Serve(r, [runs[r] EXCEPT
                    !.seedSet = Range(seedUrls),
                    !.queued = Range(seedUrls),
                    !.queue = seedUrls,
                    !.pc = "loop"])

\* A loop turn of request r that ends at "continue".
RequestSkip(r) ==
  /\ runs[r].pc = "loop"
  /\ runs[r].queue # <<>>
  /\ Head(runs[r].queue) = <<>> \/ Head(runs[r].queue) \in Seen(r)
  /\ Serve(r, [runs[r] EXCEPT !.queue = Tail(@), !.current = Head(runs[r].queue)])

\* A loop turn of request r up to the await of fetch.
RequestFetch(r) ==
  /\ runs[r].pc = "loop"
  /\ runs[r].queue # <<>>
  /\ ~(Head(runs[r].queue) = <<>> \/ Head(runs[r].queue) \in Seen(r))
  /\ Serve(r, [runs[r] EXCEPT
                 !.queue = Tail(@),
                 !.current = Head(runs[r].queue),
                 !.visited = @ \cup {Head(runs[r].queue)},
                 !.pageCount = @ + 1,
                 !.pc = "fetching"])

\* The fetch of request r resolves with a status that is not ok, or
\* rejects: "continue".
RequestFetchFailed(r) ==
  /\ runs[r].pc = "fetching"
  /\ Serve(r, [runs[r] EXCEPT
                 !.pc = "loop",
                 !.fetchLog = Append(@, [url |-> runs[r].current, ok |-> FALSE,
                                         html |-> <<>>])])

\* The fetch of request r resolves with html: the rest of the loop body.
RequestFetchOk(r, page) ==
  /\ runs[r].pc = "fetching"
  /\ LET run      == runs[r]
         record   == Record(page, run.current, zone)
         frontier == EnqueueNew(extractSidebarUrls(page, run.current), 1, run.visited,
                                [queued |-> run.queued, queue |-> run.queue])
         isSeed   == run.current \in run.seedSet
     IN Serve(r, [run EXCEPT
                    !.seedResults = IF isSeed THEN Append(@, record) ELSE @,
                    !.discoveredResults = IF isSeed THEN @ ELSE Append(@, record),
                    !.queued = frontier.queued,
                    !.queue = frontier.queue,
                    !.fetchLog = Append(@, [url |-> run.current, ok |-> TRUE,
                                            html |-> <<page>>]),
                    !.pc = "loop"])

\* The queue of request r is empty: scrapeAll returns and the handler
\* sends the CSV.
RequestReturn(r) ==
  /\ runs[r].pc = "loop"
  /\ runs[r].queue = <<>>
  /\ LET rows == AllRows(runs[r].seedResults, runs[r].discoveredResults)
     IN Serve(r, [runs[r] EXCEPT
                    !.allRows = rows,
                    !.response = [status |-> 200, body |-> toCsv(rows)],
                    !.pc = "done"])

NextServer ==
  \E r \in Requests :
    \/ RequestMissing(r)
    \/ RequestStart(r)
    \/ RequestSkip(r)
    \/ RequestFetch(r)
    \/ RequestFetchFailed(r)
    \/ \E page \in ServedPages : RequestFetchOk(r, page)
    \/ RequestReturn(r)

ServerSpec == InitServer /\ [][NextServer]_vars

\* ------------------------------------------------------------ claims

\* The seed URLs as computed from urls.txt, whatever the crawl did since.
StartSeedUrls == SeedUrls(urlsLines)
StartSeedSet == Range(StartSeedUrls)

\* The indices of the fetches that returned a page.
OkFetches == {i \in 1..Len(fetchLog) : fetchLog[i].ok}

\* The links extractSidebarUrls returned for fetch i.
LinksOfFetch(i) == extractSidebarUrls(fetchLog[i].html[1], fetchLog[i].url)

IsPrefix(xs, ys) == Len(xs) <= Len(ys) /\ SubSeq(ys, 1, Len(xs)) = xs

\* C1: in one run of scrapeAll no URL is fetched more than once, whatever
\* the seed list (duplicate lines, spellings with the same normal form) and
\* whatever pages link to it.
C1_FetchedAtMostOnce ==
  \A i, j \in 1..Len(fetchLog) : fetchLog[i].url = fetchLog[j].url => i = j

\* C1 witness: a finished crawl that fetched a URL which two lines of the
\* seed list normalize to and which two different fetched pages link to.
C1_Witness ==
  /\ pc = "done"
  /\ \E u \in Range(StartSeedUrls) :
       /\ Cardinality({i \in 1..Len(StartSeedUrls) : StartSeedUrls[i] = u}) >= 2
       /\ Cardinality({i \in OkFetches : u \in Range(LinksOfFetch(i))}) >= 2
       /\ \E i \in 1..Len(fetchLog) : fetchLog[i].url = u

\* C2: a record goes to seedResults exactly when its URL is in the seed set
\* computed from the seed list at the start; every fetched page has one
\* record; the seed set does not change during the crawl and no record
\* leaves its group.
C2_Classification ==
  /\ [](pc \notin {"idle", "failed"} =>
          /\ seedSet = StartSeedSet
          /\ \A i \in 1..Len(seedResults) : seedResults[i].URL \in StartSeedSet
          /\ \A i \in 1..Len(discoveredResults) :
               discoveredResults[i].URL \notin StartSeedSet
          /\ Len(seedResults) + Len(discoveredResults) = Cardinality(OkFetches))
  /\ [][/\ IsPrefix(seedResults, seedResults')
        /\ IsPrefix(discoveredResults, discoveredResults')
        /\ (pc # "idle" => seedSet' = seedSet)]_vars

\* C2 witness: a finished crawl with a seed record whose line in urls.txt
\* was spelled differently from its URL, and with a discovered record.
C2_Witness ==
  /\ pc = "done"
  /\ \E i \in 1..Len(seedResults) : seedResults[i].URL \notin Range(RawList(urlsLines))
  /\ discoveredResults # <<>>

\* C3: normalizeUrl is idempotent on every line of the seed list that it
\* accepts, lines whose path ends in several "/" included.
C3_Idempotent ==
  pc # "idle" =>
    \A i \in 1..Len(RawList(urlsLines)) :
      LET n == normalizeUrl(RawList(urlsLines)[i])
      IN n # Null => normalizeUrl(n) = n

\* C4: from seeding on, no URL occurs twice in the queue, and no URL that
\* was dequeued is in the queue.
C4_QueueDistinct ==
  pc \in {"loop", "fetching", "done"} =>
    /\ \A i, j \in 1..Len(queue) : queue[i] = queue[j] => i = j
    /\ \A i \in 1..Len(queue) : queue[i] \notin visited

\* C5 as stated: when all seeds are on one site, every link that
\* extractSidebarUrls returns, and every discovered URL enqueued, is on the
\* site of the seeds.
C5_SeedDomain ==
  (\A s, t \in seedSet : s[1] = t[1]) =>
    /\ \A i \in OkFetches : \A u \in Range(LinksOfFetch(i)) :
         \A s \in seedSet : u[1] = s[1]
    /\ \A u \in queued \ seedSet : \A s \in seedSet : u[1] = s[1]

\* C5 amended: every link that extractSidebarUrls returns, and every
\* discovered URL enqueued, is on https://learn.microsoft.com/, whatever
\* site the seeds are on.
C5_LearnDomain ==
  /\ \A i \in OkFetches : \A u \in Range(LinksOfFetch(i)) :
       startsWith(u, <<"L", "/">>)
  /\ \A u \in queued \ seedSet : startsWith(u, <<"L", "/">>)

\* C5 witness: a page fetched from another site whose anchors resolve both
\* to that site and to learn.microsoft.com, the latter enqueued.
C5_Witness ==
  \E i \in OkFetches :
    /\ fetchLog[i].url[1] = "O"
    /\ LinksOfFetch(i) # <<>>
    /\ Range(LinksOfFetch(i)) \subseteq queued
    /\ \E k \in 1..Len(fetchLog[i].html[1].anchors) :
         LET a == fetchLog[i].html[1].anchors[k]
         IN /\ a.sel # {} /\ a.href # <<>>
            /\ ResolveUrl(a.href, fetchLog[i].url) # Null
            /\ ResolveUrl(a.href, fetchLog[i].url)[1] = "O"

\* The URLs of a sequence of records, in order.
UrlsOf(rows) == [i \in 1..Len(rows) |-> rows[i].URL]

\* The end-to-end scenario: urls.txt holds the one line
\* https://learn.microsoft.com/a, the crawl is finished, every fetch
\* succeeded, page a was one of pagesOfA and every other page had no links.
Scenario(pagesOfA) ==
  /\ urlsLines = << <<"L", "/", "a">> >>
  /\ pc = "done"
  /\ fetchLog # <<>>
  /\ \A i \in 1..Len(fetchLog) : fetchLog[i].ok
  /\ fetchLog[1].html[1] \in pagesOfA
  /\ \A i \in 2..Len(fetchLog) : fetchLog[i].html[1] = PageBeta

\* What the scenario expects: a seed record for a, then one discovered
\* record for b, and no fetch or record of /c or /d.
ScenarioResult ==
  /\ UrlsOf(seedResults) = << <<"L", "/", "a">> >>
  /\ UrlsOf(discoveredResults) = << <<"L", "/", "b">> >>
  /\ UrlsOf(allRows) = << <<"L", "/", "a">>, <<"L", "/", "b">> >>
  /\ allRows[1].Title = <<"Alpha">>
  /\ [i \in 1..Len(fetchLog) |-> fetchLog[i].url]
       = << <<"L", "/", "a">>, <<"L", "/", "b">> >>
  /\ queued = { <<"L", "/", "a">>, <<"L", "/", "b">> }

\* C6 as stated: the scenario gives its result whatever element encloses
\* the three anchors of page a.
C6_AnyEnclosure ==
  Scenario({PageAlphaFlat, PageAlphaBoxes, PageAlphaDiv}) => ScenarioResult

\* C6 amended: the scenario gives its result when the section, table or div
\* nearest around the /b anchor, if there is one, does not hold the
\* "Supported countries" anchor.
C6_SeparateEnclosure ==
  Scenario({PageAlphaFlat, PageAlphaBoxes}) => ScenarioResult

\* C6 witness: the scenario ran to its end on a page a whose anchors are in
\* two divs.
C6_Witness == Scenario({PageAlphaBoxes}) /\ Len(fetchLog) = 2

\* C7: a failed fetch is not fatal.  The step that fails changes no record,
\* no queue entry and no set, and leaves the URL visited; the URL is never
\* fetched again; the crawl never ends in failure after it, and it goes on
\* until every URL ever queued has been fetched.
C7_FailureNonFatal ==
  /\ [][(pc = "fetching" /\ Len(fetchLog') > Len(fetchLog)
           /\ ~fetchLog'[Len(fetchLog')].ok) =>
          /\ seedResults' = seedResults /\ discoveredResults' = discoveredResults
          /\ queue' = queue /\ queued' = queued /\ visited' = visited
          /\ current \in visited'
          /\ pc' = "loop"]_vars
  /\ [](\A i, j \in 1..Len(fetchLog) :
          (~fetchLog[i].ok /\ i # j) => fetchLog[j].url # fetchLog[i].url)
  /\ [](\A i \in 1..Len(fetchLog) : ~fetchLog[i].ok =>
          /\ fetchLog[i].url \in visited
          /\ fetchLog[i].url \notin Range(UrlsOf(seedResults \o discoveredResults)))
  /\ [](pc = "failed" => fetchLog = <<>>)
  /\ [](pc = "done" =>
          /\ response.status = 200
          /\ queued = {fetchLog[i].url : i \in 1..Len(fetchLog)})
  /\ ((\E i \in 1..Len(fetchLog) : ~fetchLog[i].ok) ~> pc = "done")

\* C7 witness: a finished crawl in which a fetch failed while other URLs
\* were waiting, and a later fetch succeeded.
C7_Witness ==
  /\ pc = "done"
  /\ \E i, j \in 1..Len(fetchLog) :
       /\ i < j /\ ~fetchLog[i].ok /\ fetchLog[j].ok
       /\ fetchLog[j].url \in StartSeedSet

\* C8: when urls.txt is missing the request fails before any fetch, with a
\* message and no rows; a failed request never carries CSV, and CSV is sent
\* only by a crawl that ran to its end.
C8_MissingSeedsFatal ==
  /\ (~urlsExists /\ pc # "idle") =>
       /\ pc = "failed"
       /\ fetchLog = <<>>
       /\ pageCount = 0
       /\ allRows = <<>> /\ seedResults = <<>> /\ discoveredResults = <<>>
  /\ pc = "failed" =>
       /\ response.status = 500
       /\ response.body # <<>>
       /\ response.body[1] = "Scraping failed: "
       /\ ~includes(response.body, <<"Title", ",", "URL">>)
       /\ allRows = <<>>
  /\ response.status = 200 => (pc = "done" /\ urlsExists)

\* C8 witness: the request failed on a missing urls.txt.
C8_Witness == ~urlsExists /\ pc = "failed" /\ response.status = 500

\* C9: every crawl finishes, and when it has, the queue is empty and every
\* URL that was ever queued has been visited.
C9_Terminates ==
  /\ <>(pc \in {"done", "failed"})
  /\ [](pc = "done" => (queue = <<>> /\ queued \subseteq visited /\ visited \subseteq queued))

\* C9 witness: a finished crawl that queued discovered links and had a
\* failed fetch.
C9_Witness ==
  /\ pc = "done"
  /\ queued \ seedSet # {}
  /\ Cardinality(queued) >= 3
  /\ \E i \in 1..Len(fetchLog) : ~fetchLog[i].ok

\* The records of the fetches from i on that returned a page and whose URL
\* is (seed = TRUE) or is not (seed = FALSE) a seed, in fetch order.
RECURSIVE FetchedRecords(_, _)
FetchedRecords(i, seed) ==
  IF i > Len(fetchLog) THEN <<>>
  ELSE (IF fetchLog[i].ok /\ ((fetchLog[i].url \in StartSeedSet) = seed)
          THEN <<Record(fetchLog[i].html[1], fetchLog[i].url, zone)>>
          ELSE <<>>)
         \o FetchedRecords(i + 1, seed)

\* C10: the returned rows are the seed records in the order their pages
\* were fetched, followed by the discovered records in the order their
\* pages were fetched; the CSV sent has them in that order.
C10_RowOrder ==
  pc = "done" =>
    /\ allRows = FetchedRecords(1, TRUE) \o FetchedRecords(1, FALSE)
    /\ response.body = toCsv(FetchedRecords(1, TRUE) \o FetchedRecords(1, FALSE))

\* C10 witness: a finished crawl that returned two seed records and a
\* discovered record.
C10_Witness ==
  /\ pc = "done"
  /\ Len(FetchedRecords(1, TRUE)) >= 2
  /\ Len(FetchedRecords(1, FALSE)) >= 1
  /\ Len(allRows) >= 3

\* The URLs a fetch log offered to the queue, from fetch i on: for every
\* page fetched, its sidebar links as line 214 normalizes them.
RECURSIVE OfferedFrom(_, _)
OfferedFrom(log, i) ==
  IF i > Len(log) THEN <<>>
  ELSE (IF log[i].ok
          THEN LET links == extractSidebarUrls(log[i].html[1], log[i].url)
               IN [k \in 1..Len(links) |-> normalizeUrl(links[k])]
          ELSE <<>>)
         \o OfferedFrom(log, i + 1)

\* The URLs of a crawl in the order of their first enqueue: the seeds in
\* the order of urls.txt, then the links in the order they were found.
FirstEnqueueOrder(seeds, log) == ArrayFromSet(seeds \o OfferedFrom(log, 1), {})

\* C14: the URLs fetched so far, the one in flight and the ones still to
\* fetch from the queue are, in this order, the URLs in the order of their
\* first enqueue: no URL is fetched before one that was enqueued earlier.
C14_FifoOrder ==
  pc \in {"loop", "fetching", "done"} =>
    [i \in 1..Len(fetchLog) |-> fetchLog[i].url]
        \o (IF pc = "fetching" THEN <<current>> ELSE <<>>)
        \o ArrayFromSet(queue, visited)
      = FirstEnqueueOrder(StartSeedUrls, fetchLog)

\* C14 witness: a finished crawl whose first page linked to a new URL
\* while a second seed was waiting: the seed was fetched second and the
\* linked URL after it.
C14_Witness ==
  /\ pc = "done"
  /\ Len(fetchLog) >= 3
  /\ fetchLog[1].ok
  /\ fetchLog[2].url \in StartSeedSet
  /\ fetchLog[3].url \notin StartSeedSet
  /\ fetchLog[3].url \in Range(OfferedFrom(SubSeq(fetchLog, 1, 1), 1))

\* visited and the queue hold only URLs that are in queued.
FrontierWithinQueued == visited \subseteq queued /\ Range(queue) \subseteq queued

\* C17: in every state of a crawl visited is a subset of queued and every
\* URL of the queue is in queued, and no step takes a URL out of queued.
C17_QueuedSuperset ==
  [][FrontierWithinQueued /\ FrontierWithinQueued' /\ queued \subseteq queued']_vars

\* C17 witness: a crawl in which queued has grown beyond the seeds and
\* holds URLs fetched, URLs waiting in the queue, and a URL in flight.
C17_Witness ==
  /\ pc = "fetching"
  /\ queue # <<>>
  /\ Cardinality(visited) >= 2
  /\ queued \ StartSeedSet # {}
  /\ Range(queue) \ StartSeedSet # {}

\* The records made so far.
Records == seedResults \o discoveredResults

\* The records and the successful fetches correspond one to one, and
\* every record's URL is in visited.
RecordsMatchFetches ==
  /\ \A i, j \in 1..Len(Records) : Records[i].URL = Records[j].URL => i = j
  /\ Len(Records) = Cardinality(OkFetches)
  /\ {Records[i].URL : i \in 1..Len(Records)} = {fetchLog[i].url : i \in OkFetches}
  /\ \A i \in 1..Len(Records) : Records[i].URL \in visited

\* C20: at every point of a crawl the records correspond one to one to
\* the URLs fetched with success, no two records have the same URL, every
\* record's URL is in visited, and each step leaves the records made so
\* far in place, only appending to them.
C20_RecordsPerFetch ==
  [][/\ RecordsMatchFetches
     /\ RecordsMatchFetches'
     /\ IsPrefix(seedResults, seedResults')
     /\ IsPrefix(discoveredResults, discoveredResults')]_vars

\* C20 witness: a finished crawl with a failed fetch and with seed and
\* discovered records.
C20_Witness ==
  /\ pc = "done"
  /\ seedResults # <<>>
  /\ Len(discoveredResults) >= 2
  /\ \E i \in 1..Len(fetchLog) : ~fetchLog[i].ok

\* ------------------------------------------------------------ claims on single calls

\* Texts that denote March 15, 2024.
March15 == { <<"3/15/2024">>, <<"03/15/2024">>, <<"March 15, 2024">> }

\* The probed page has a local-time element with the attribute
\* 2024-03-15T00:00:00Z, text that is no numeric date, and no other date.
OnlyMidnightAttribute ==
  /\ probe # <<>>
  /\ probe.fn = "extractLastUpdated"
  /\ probe.page.localTime # <<>>
  /\ probe.page.localTime[1].datetime = "2024-03-15T00:00:00Z"
  /\ trim(probe.page.localTime[1].text) \notin {<<d>> : d \in NumericDates}
  /\ probe.page.regions = NoRegions
  /\ \A i \in 1..Len(probe.page.body) : probe.page.body[i] \notin DatePhrases

\* C11: on a page whose only date is the attribute 2024-03-15T00:00:00Z of
\* its local-time element, extractLastUpdated returns a text that denotes
\* March 15, 2024, in every time zone of the process.
C11_March15 ==
  (OnlyMidnightAttribute /\ answer # <<>>) => answer[1] \in March15

\* The anchors of the probed page with the text "Supported countries/regions".
SupportedAnchors ==
  { i \in 1..Len(probe.page.anchors) : probe.page.anchors[i].text = SupportedText }

\* The URL anchor i of the probed page points to, as a link would be returned.
TargetOf(i) == normalizeUrl(ResolveUrl(probe.page.anchors[i].href, probe.baseUrl))

\* C12: an anchor with the text "Supported countries/regions" is never
\* returned by extractSidebarUrls, whatever its href (fragment, relative,
\* inside or outside the domain), its selector and its enclosure: its
\* target is not in the result unless another anchor points there too.
C12_SupportedNeverReturned ==
  (probe # <<>> /\ probe.fn = "extractSidebarUrls" /\ answer # <<>>) =>
    \A i \in SupportedAnchors :
      (\A j \in 1..Len(probe.page.anchors) :
          j \notin SupportedAnchors => TargetOf(j) # TargetOf(i))
        => TargetOf(i) \notin Range(answer[1])

\* The call returned the ordinary link of a page and dropped a link to
\* the same site that had the text "Supported countries/regions".
C12_Witness ==
  /\ probe # <<>> /\ probe.fn = "extractSidebarUrls" /\ answer # <<>>
  /\ answer[1] = << <<"L", "/", "b">> >>
  /\ \E i \in SupportedAnchors :
       /\ startsWith(ResolveUrl(probe.page.anchors[i].href, probe.baseUrl), <<"L", "/">>)
       /\ ~startsWith(probe.page.anchors[i].href, <<"#">>)
       /\ TargetOf(i) = <<"L", "/", "c">>

\* A CSV parser after RFC 4180, reading s from position i.  q is 0 in an
\* unquoted field, 1 inside quotes, 2 after the closing quote; f is the
\* field read so far, r the fields of the current record, out the records
\* read.  Inside quotes a doubled quote is one quote and commas and line
\* breaks are data; outside, a comma ends the field and CRLF the record.
RECURSIVE ParseFrom(_, _, _, _, _, _)
ParseFrom(s, i, q, f, r, out) ==
  IF i > Len(s) THEN Append(out, Append(r, f))
  ELSE IF q = 1 THEN
    IF s[i] = "\"" THEN
      IF i < Len(s) /\ s[i + 1] = "\""
        THEN ParseFrom(s, i + 2, 1, Append(f, "\""), r, out)
        ELSE ParseFrom(s, i + 1, 2, f, r, out)
    ELSE ParseFrom(s, i + 1, 1, Append(f, s[i]), r, out)
  ELSE IF s[i] = "," THEN ParseFrom(s, i + 1, 0, <<>>, Append(r, f), out)
  ELSE IF s[i] = "\r\n" THEN ParseFrom(s, i + 1, 0, <<>>, <<>>, Append(out, Append(r, f)))
  ELSE IF s[i] = "\"" /\ q = 0 /\ f = <<>> THEN ParseFrom(s, i + 1, 1, f, r, out)
  ELSE ParseFrom(s, i + 1, q, Append(f, s[i]), r, out)

ParseCsv(s) == ParseFrom(s, 1, 0, <<>>, <<>>, <<>>)

\* The records a parser should read back: the header, then each row.
ExpectedRecords(rows) ==
  << << <<"Title">>, <<"URL">>, <<"LastUpdated">> >> >>
    \o [i \in 1..Len(rows) |-> << rows[i].Title, rows[i].URL, rows[i].LastUpdated >>]

\* C13: parsing the text toCsv returns with a standard CSV parser gives
\* the header and then the field strings of every row, in row order, also
\* when a Title holds commas, double quotes and line breaks.
C13_RoundTrip ==
  (probe # <<>> /\ probe.fn = "toCsv" /\ answer # <<>>) =>
    ParseCsv(answer[1]) = ExpectedRecords(probe.rows)

\* toCsv returned for two different rows, the first with a comma and a
\* double quote in its Title.
C13_Witness ==
  /\ probe # <<>> /\ probe.fn = "toCsv" /\ answer # <<>>
  /\ Len(probe.rows) = 2
  /\ probe.rows[1] # probe.rows[2]
  /\ "," \in Range(probe.rows[1].Title)
  /\ "\"" \in Range(probe.rows[1].Title)

\* The four strategies of the probed page, each <<>> when it fails: the
\* numeric text of the local-time element, its datetime attribute as a
\* date, the "Last updated" match of container k, the first date phrase
\* of the body.
TextStrategy ==
  LET lt == probe.page.localTime
  IN IF lt # <<>> /\ trim(lt[1].text) \in { <<d>> : d \in NumericDates }
       THEN trim(lt[1].text) ELSE <<>>

AttrStrategy ==
  LET lt == probe.page.localTime
  IN IF lt = <<>> THEN <<>> ELSE toLocaleDateString(lt[1].datetime, zone)

ContainerStrategy(k) == MatchLastUpdated(probe.page.regions[k], 1)

BodyStrategy == MatchLooseDate(probe.page.body, 1)

\* C18: extractLastUpdated returns the value of the first strategy that
\* succeeds, in the order text, attribute, containers in their listed
\* order, body; it returns "UNKNOWN" exactly when all of them fail.
C18_FirstSuccessWins ==
  (probe # <<>> /\ probe.fn = "extractLastUpdated" /\ answer # <<>>) =>
    LET matching == { k \in 1..6 : ContainerStrategy(k) # <<>> }
    IN /\ TextStrategy # <<>> => answer[1] = TextStrategy
       /\ (TextStrategy = <<>> /\ AttrStrategy # <<>>) => answer[1] = AttrStrategy
       /\ (TextStrategy = <<>> /\ AttrStrategy = <<>> /\ matching # {}) =>
            \E k \in matching :
              /\ \A j \in matching : k <= j
              /\ answer[1] = ContainerStrategy(k)
       /\ (TextStrategy = <<>> /\ AttrStrategy = <<>> /\ matching = {}
             /\ BodyStrategy # <<>>) => answer[1] = BodyStrategy
       /\ answer[1] = <<"UNKNOWN">> <=>
            (TextStrategy = <<>> /\ AttrStrategy = <<>> /\ matching = {}
              /\ BodyStrategy = <<>>)

\* The local-time element gave no date, two containers match with
\* different dates and the body begins with yet another match: the call
\* returned the date of the earlier container.
C18_Witness ==
  /\ probe # <<>> /\ probe.fn = "extractLastUpdated" /\ answer # <<>>
  /\ probe.page.localTime # <<>>
  /\ TextStrategy = <<>> /\ AttrStrategy = <<>>
  /\ ContainerStrategy(1) = <<>>
  /\ ContainerStrategy(2) = <<"January 2, 2024">>
  /\ ContainerStrategy(4) = <<"May 5, 2020">>
  /\ BodyStrategy = <<"May 5, 2020">>
  /\ answer[1] = <<"January 2, 2024">>

\* ------------------------------------------------------------ claims on overlapping requests

\* The requests whose fetch is in flight.
InFlight == { r \in Requests : runs[r].pc = "fetching" }

\* C15: at most one fetch is in flight at any time, also when /scrape-all
\* is requested again while an earlier crawl is running.
C15_OneFetchInFlight == Cardinality(InFlight) <= 1

\* The records of the fetches of log from i on that returned a page and
\* whose URL is (seed = TRUE) or is not (seed = FALSE) in seeds.
RECURSIVE RecordsOf(_, _, _, _)
RecordsOf(log, i, seeds, seed) ==
  IF i > Len(log) THEN <<>>
  ELSE (IF log[i].ok /\ ((log[i].url \in seeds) = seed)
          THEN <<Record(log[i].html[1], log[i].url, zone)>>
          ELSE <<>>)
         \o RecordsOf(log, i + 1, seeds, seed)

\* The locals of request r are what urls.txt and the outcomes of r's own
\* fetches make them.
OwnCrawl(r) ==
  LET run    == runs[r]
      log    == run.fetchLog
      seeds  == SeedUrls(urlsLines)
      issued == [i \in 1..Len(log) |-> log[i].url]
                  \o (IF run.pc = "fetching" THEN <<run.current>> ELSE <<>>)
  IN run.pc \in {"loop", "fetching", "done"} =>
       /\ run.seedSet = Range(seeds)
       /\ run.visited = Range(issued)
       /\ run.queued = Range(seeds) \cup Range(OfferedFrom(log, 1))
       /\ issued \o ArrayFromSet(run.queue, run.visited) = FirstEnqueueOrder(seeds, log)
       /\ run.seedResults = RecordsOf(log, 1, Range(seeds), TRUE)
       /\ run.discoveredResults = RecordsOf(log, 1, Range(seeds), FALSE)
       /\ run.pc = "done" =>
            /\ run.visited = run.queued
            /\ run.allRows = run.seedResults \o run.discoveredResults
            /\ run.response = [status |-> 200, body |-> toCsv(run.allRows)]

\* C16: whether two calls of scrapeAll overlap or follow each other, and
\* however their steps interleave, the visited, queued and queue of each
\* and the rows it returns depend on its own fetches only.
C16_FreshPerInvocation == \A r \in Requests : OwnCrawl(r)

\* C16 witness: both requests have a fetch in flight, one of them for a
\* URL the other has already visited, after different fetches.
C16_Witness ==
  /\ runs # <<>>
  /\ runs["first"].pc = "fetching"
  /\ runs["second"].pc = "fetching"
  /\ runs["first"].fetchLog # <<>>
  /\ runs["second"].fetchLog # <<>>
  /\ runs["first"].fetchLog # runs["second"].fetchLog
  /\ runs["first"].current \in runs["second"].visited
  /\ runs["first"].current # runs["second"].current

\* C19: a URL spelled r in urls.txt and spelled r in the href of a
\* sidebar link is enqueued under one and the same string: the form the
\* loop gives the link (lines 134 and 214) is the form of the seed
\* (line 154).
C19_SameCanonicalForm ==
  \A r \in Requests :
    \A i \in 1..Len(runs[r].fetchLog) :
      LET fetched == runs[r].fetchLog[i]
      IN fetched.ok =>
           \A k \in 1..Len(fetched.html[1].anchors) :
             LET a    == fetched.html[1].anchors[k]
                 link == SidebarLink(fetched.html[1], a, fetched.url)
             IN (a.href \in Range(RawList(urlsLines)) /\ IsAbsolute(a.href) /\ link # <<>>)
                  => normalizeUrl(link[1]) = normalizeUrl(a.href)

====
